---- MODULE Spec2Model ----
(***************************************************************************)
(* Replica allocation of a UnitedDeployment across its subsets             *)
(* (pkg/controller/uniteddeployment/allocator.go).                         *)
(*                                                                         *)
(* One behaviour is one reconciliation of one UnitedDeployment: the        *)
(* subset records are built from the topology and the observed subsets,    *)
(* sorted, and handed to AllocateReplicas; the returned allocation is then *)
(* observed as the subsets' replicas and the allocator runs once more.     *)
(***************************************************************************)
EXTENDS Integers, Sequences, FiniteSets, TLC

\* ------------------------------------------------------------------ bounds
\* Topologies of up to three subsets, with every specified map:
\* largest current replica count of one subset in an initial state
MaxCurrent == 3
\* largest UnitedDeployment .spec.replicas
MaxTotal == 4
\* The topology of four subsets, with the empty map and the two maps that
\* pin every subset to one value:
\* largest current replica count of one subset in an initial state
MaxCurrentOfFour == 6
\* largest UnitedDeployment .spec.replicas
MaxTotalOfFour == 11

\* The subset names of the topologies of up to three subsets.
ThreeNames == <<"subset-a", "subset-b", "subset-c">>

\* The subset names a topology is drawn from, in strings.Compare order.
SubsetNames == ThreeNames \o <<"subset-d">>

\* A *map[string]int32: the nil pointer, or a pointer to the map m.
NIL == [isNil |-> TRUE, m |-> <<>>]

PointerTo(m) == [isNil |-> FALSE, m |-> m]

\* No earlier allocation has been returned yet.
NONE == <<>>
\* The empty string.
EmptyString == <<>>

\* -------------------------------------------------------------- arithmetic
\* Replica counts are int32 in the source.  Every count of the model is
\* bounded by MaxCurrent and MaxTotal, far below 2^31, so int32 arithmetic
\* is exact on every value that occurs and is written as integer arithmetic.

\* Go's integer division truncates toward zero (b > 0 at every use).
Quo(a, b) == IF a >= 0 THEN a \div b ELSE -((-a) \div b)

\* Go's remainder has the sign of the dividend.
Rem(a, b) == a - b * Quo(a, b)

\* ------------------------------------------------------------------- names
NameIndex(name) == CHOOSE i \in 1..Len(SubsetNames) : SubsetNames[i] = name

\* strings.Compare on subset names.
StringsCompare(a, b) ==
    IF NameIndex(a) < NameIndex(b) THEN -1
    ELSE IF NameIndex(a) > NameIndex(b) THEN 1 ELSE 0

\* ----------------------------------------------------------------- records
\* subsetInfos.Get
Get(n, i) == n[i + 1]

LessWrong(a, b) ==
    IF a.Replicas # b.Replicas
    THEN a.Replicas < b.Replicas
    ELSE StringsCompare(a.SubsetName, b.SubsetName) > 0

\* subsetInfos.Less, on the two records
Less(a, b) ==
    IF a.Replicas # b.Replicas
    THEN a.Replicas < b.Replicas
    ELSE StringsCompare(a.SubsetName, b.SubsetName) < 0

RECURSIVE InsertSorted(_, _)
InsertSorted(sorted, r) ==
    IF sorted = <<>> THEN <<r>>
    ELSE IF Less(r, Head(sorted)) THEN <<r>> \o sorted
    ELSE <<Head(sorted)>> \o InsertSorted(Tail(sorted), r)

RECURSIVE SortInfos(_)
\* sort.Sort(n): Less is a strict total order on records with unique names,
\* so the sorted sequence is unique.
SortInfos(n) ==
    IF n = <<>> THEN <<>>
    ELSE InsertSorted(SortInfos(Tail(n)), Head(n))

\* getSubsetInfos: one record per subset of the topology, in topology
\* order; a subset that is not observed has zero replicas.
getSubsetInfos(nameToSubset, topologySubsets) ==
    [idx \in 1..Len(topologySubsets) |->
        [SubsetName |-> topologySubsets[idx],
         Replicas   |-> IF topologySubsets[idx] \in DOMAIN nameToSubset
                        THEN nameToSubset[topologySubsets[idx]]
                        ELSE 0,
         Specified  |-> FALSE]]

\* toSubsetReplicaMap
toSubsetReplicaMap(subs) ==
    [name \in {subs[i].SubsetName : i \in 1..Len(subs)} |->
        (CHOOSE r \in {subs[i] : i \in 1..Len(subs)} : r.SubsetName = name).Replicas]

RECURSIVE SumOfMap(_)
\* the sum of the values of a map
SumOfMap(m) ==
    IF DOMAIN m = {} THEN 0
    ELSE LET k == CHOOSE x \in DOMAIN m : TRUE
         IN  (m[k] + SumOfMap([x \in DOMAIN m \ {k} |-> m[x]]))

RECURSIVE SumOfReplicas(_)
\* the sum of the records' replicas
SumOfReplicas(subs) ==
    IF subs = <<>> THEN 0
    ELSE (Head(subs).Replicas + SumOfReplicas(Tail(subs)))

\* ------------------------------------------------------- effectiveReplicas
GreaterReason(specifiedReplicas, replicas) ==
    <<"Specified subsets' replica (%d) is greater than UnitedDeployment replica (%d)",
      specifiedReplicas, replicas>>

LessReason(specifiedReplicas, replicas) ==
    <<"Specified subsets' replica (%d) is less than UnitedDeployment replica (%d)",
      specifiedReplicas, replicas>>

effectiveReplicasNoShortfall(subs, replicas, subsetReplicasLimits) ==
    IF subsetReplicasLimits = NIL
    THEN [effective |-> TRUE, reason |-> EmptyString]
    ELSE LET specifiedReplicas == SumOfMap(subsetReplicasLimits.m)
         IN  IF specifiedReplicas > replicas
             THEN [effective |-> FALSE,
                   reason |-> GreaterReason(specifiedReplicas, replicas)]
             ELSE [effective |-> TRUE, reason |-> EmptyString]

effectiveReplicas(subs, replicas, subsetReplicasLimits) ==
    IF subsetReplicasLimits = NIL
    THEN [effective |-> TRUE, reason |-> EmptyString]
    ELSE LET specifiedReplicas == SumOfMap(subsetReplicasLimits.m)
             specifiedCount ==
                 Cardinality({i \in 1..Len(subs) :
                                 subs[i].SubsetName \in DOMAIN subsetReplicasLimits.m})
         IN  IF specifiedReplicas > replicas
             THEN [effective |-> FALSE,
                   reason |-> GreaterReason(specifiedReplicas, replicas)]
             ELSE IF specifiedReplicas < replicas /\ specifiedCount = Len(subs)
             THEN [effective |-> FALSE,
                   reason |-> LessReason(specifiedReplicas, replicas)]
             ELSE [effective |-> TRUE, reason |-> EmptyString]

\* ---------------------------------------------------------- normalAllocate
\* Step 1: apply replicas to specified subsets, and mark them as specified.
ApplySpecified(subs, specifiedSubsetReplicas) ==
    [i \in 1..Len(subs) |->
        IF subs[i].SubsetName \in DOMAIN specifiedSubsetReplicas
        THEN [subs[i] EXCEPT !.Replicas = specifiedSubsetReplicas[subs[i].SubsetName],
                             !.Specified = TRUE]
        ELSE subs[i]]

RECURSIVE AverageLeftIgnoringSpecified(_, _, _, _, _)
AverageLeftIgnoringSpecified(subs, i, average, remainder, leftSubsetCount) ==
    IF i < 0 THEN subs
    ELSE LET assigned == IF remainder > 0 THEN (average + 1) ELSE (average)
             next == [subs EXCEPT ![i + 1].Replicas = assigned]
         IN  IF leftSubsetCount - 1 = 0 THEN next
             ELSE AverageLeftIgnoringSpecified(next, i - 1, average,
                      IF remainder > 0 THEN remainder - 1 ELSE remainder,
                      leftSubsetCount - 1)

RECURSIVE AverageLeftFromLowest(_, _, _, _, _)
AverageLeftFromLowest(subs, i, average, remainder, leftSubsetCount) ==
    LET k == Len(subs) - 1 - i
    IN  IF i < 0 THEN subs
        ELSE IF Get(subs, k).Specified
        THEN AverageLeftFromLowest(subs, i - 1, average, remainder, leftSubsetCount)
        ELSE LET assigned == IF remainder > 0 THEN (average + 1) ELSE (average)
                 next == [subs EXCEPT ![k + 1].Replicas = assigned]
             IN  IF leftSubsetCount - 1 = 0 THEN next
                 ELSE AverageLeftFromLowest(next, i - 1, average,
                          IF remainder > 0 THEN remainder - 1 ELSE remainder,
                          leftSubsetCount - 1)

RECURSIVE AverageLeft(_, _, _, _, _)
\* Step 2's loop: for i := len-1; i >= 0; i--, skipping specified records.
AverageLeft(subs, i, average, remainder, leftSubsetCount) ==
    IF i < 0 THEN subs
    ELSE IF Get(subs, i).Specified
    THEN AverageLeft(subs, i - 1, average, remainder, leftSubsetCount)
    ELSE LET assigned == IF remainder > 0 THEN (average + 1) ELSE (average)
             next == [subs EXCEPT ![i + 1].Replicas = assigned]
         IN  IF leftSubsetCount - 1 = 0 THEN next
             ELSE AverageLeft(next, i - 1, average,
                      IF remainder > 0 THEN remainder - 1 ELSE remainder,
                      leftSubsetCount - 1)

\* normalAllocate: the records after the call, or a panic when the nil map
\* pointer is dereferenced in the first iteration of step 1.
normalAllocate(subs, expectedReplicas, specifiedSubsetReplicas) ==
    IF specifiedSubsetReplicas = NIL /\ Len(subs) > 0
    THEN [panic |-> TRUE, subsets |-> subs]
    ELSE LET spec == specifiedSubsetReplicas.m
             applied == ApplySpecified(subs, spec)
             pinned == {i \in 1..Len(subs) : subs[i].SubsetName \in DOMAIN spec}
             specifiedReplicas ==
                 SumOfMap([i \in pinned |-> spec[subs[i].SubsetName]])
             leftSubsetCount == Len(subs) - Cardinality(pinned)
             allocatableReplicas == (expectedReplicas - specifiedReplicas)
         IN  IF leftSubsetCount # 0
             THEN [panic |-> FALSE,
                   subsets |-> AverageLeft(applied, Len(subs) - 1,
                                   Quo(allocatableReplicas, leftSubsetCount),
                                   Rem(allocatableReplicas, leftSubsetCount),
                                   leftSubsetCount)]
             ELSE [panic |-> FALSE, subsets |-> applied]

\* ----------------------------------------------------- incrementalAllocate
\* The loop variables that outlive the loops of incrementalAllocate.
LoopVars(i, average, reminder, leftSubsetsCount, expectedReplicas) ==
    [i |-> i, average |-> average, reminder |-> reminder,
     leftSubsetsCount |-> leftSubsetsCount, expectedReplicas |-> expectedReplicas]

ScaleOutConsiderNoExclusion(subs, i, v) ==
    IF i < 0 THEN [v EXCEPT !.i = i]
    ELSE LET leftSubsetsCount == (i + 1)
             average == Quo(v.expectedReplicas, leftSubsetsCount)
             reminder == Rem(v.expectedReplicas, leftSubsetsCount)
         IN  LoopVars(i, average, reminder, leftSubsetsCount, v.expectedReplicas)

RECURSIVE ScaleOutConsider(_, _, _)
\* for i = consideredLen - 1; i >= 0; i-- : give up the i th subset while it
\* has more replicas than the considered average.
ScaleOutConsider(subs, i, v) ==
    IF i < 0 THEN [v EXCEPT !.i = i]
    ELSE LET leftSubsetsCount == (i + 1)
             average == Quo(v.expectedReplicas, leftSubsetsCount)
             reminder == Rem(v.expectedReplicas, leftSubsetsCount)
             consideredAverage == IF reminder > 0 THEN (average + 1) ELSE average
         IN  IF consideredAverage < Get(subs, i).Replicas
             THEN ScaleOutConsider(subs, i - 1,
                      LoopVars(i, average, reminder, leftSubsetsCount,
                               (v.expectedReplicas - Get(subs, i).Replicas)))
             ELSE LoopVars(i, average, reminder, leftSubsetsCount, v.expectedReplicas)

ScaleOutAssignLosingReminder(subs, j, average, reminder) ==
    [k \in 1..Len(subs) |->
        IF k <= j + 1 THEN [subs[k] EXCEPT !.Replicas = average] ELSE subs[k]]

RECURSIVE ScaleOutAssign(_, _, _, _)
\* for j := i; j > -1; j--
ScaleOutAssign(subs, j, average, reminder) ==
    IF j <= -1 THEN subs
    ELSE IF reminder > 0
    THEN ScaleOutAssign([subs EXCEPT ![j + 1].Replicas = (average + 1)],
                        j - 1, average, reminder - 1)
    ELSE ScaleOutAssign([subs EXCEPT ![j + 1].Replicas = average],
                        j - 1, average, reminder)

RECURSIVE ScaleInConsider(_, _, _)
\* for i = 0; i < consideredLen; i++ : leave the i th subset alone while it
\* has less replicas than the average.
ScaleInConsider(subs, i, v) ==
    IF i >= Len(subs) THEN [v EXCEPT !.i = i]
    ELSE LET leftSubsetsCount == (Len(subs) - i)
             average == Quo(v.expectedReplicas, leftSubsetsCount)
             reminder == Rem(v.expectedReplicas, leftSubsetsCount)
         IN  IF average > Get(subs, i).Replicas
             THEN ScaleInConsider(subs, i + 1,
                      LoopVars(i, average, reminder, leftSubsetsCount,
                               (v.expectedReplicas - Get(subs, i).Replicas)))
             ELSE LoopVars(i, average, reminder, leftSubsetsCount, v.expectedReplicas)

RECURSIVE ScaleInAssign(_, _, _, _, _)
\* for j := i; j < consideredLen; j++
ScaleInAssign(subs, j, average, reminder, leftSubsetsCount) ==
    IF j >= Len(subs) THEN subs
    ELSE IF leftSubsetsCount <= reminder
    THEN ScaleInAssign([subs EXCEPT ![j + 1].Replicas = (average + 1)],
                       j + 1, average, reminder, leftSubsetsCount)
    ELSE ScaleInAssign([subs EXCEPT ![j + 1].Replicas = average],
                       j + 1, average, reminder, (leftSubsetsCount - 1))

ScaleInWholeRange(subs, expectedReplicas) ==
    LET v == ScaleInConsider(subs, 0, LoopVars(0, 0, 0, 0, expectedReplicas))
    IN  ScaleInAssign(subs, 0, v.average, v.reminder, v.leftSubsetsCount)

\* the diff > 0 branch
ScaleOut(subs, expectedReplicas) ==
    LET v == ScaleOutConsider(subs, Len(subs) - 1,
                              LoopVars(0, 0, 0, 0, expectedReplicas))
    IN  ScaleOutAssign(subs, v.i, v.average, v.reminder)

\* the diff < 0 branch
ScaleIn(subs, expectedReplicas) ==
    LET v == ScaleInConsider(subs, 0, LoopVars(0, 0, 0, 0, expectedReplicas))
    IN  ScaleInAssign(subs, v.i, v.average, v.reminder, v.leftSubsetsCount)

incrementalAllocateNoZeroDiff(subs, expectedReplicas) ==
    LET diff == (expectedReplicas - SumOfReplicas(subs))
    IN  IF diff > 0 THEN ScaleOut(subs, expectedReplicas)
        ELSE ScaleIn(subs, expectedReplicas)

\* incrementalAllocate: the records after the call
incrementalAllocate(subs, expectedReplicas) ==
    LET currentReplicas == SumOfReplicas(subs)
        diff == (expectedReplicas - currentReplicas)
    IN  IF diff > 0 THEN ScaleOut(subs, expectedReplicas)
        ELSE IF diff < 0 THEN ScaleIn(subs, expectedReplicas)
        ELSE subs

\* -------------------------------------------------------- AllocateReplicas
Returned(panic, subs, effective, reason) ==
    [panic |-> panic, subsets |-> subs,
     allocated |-> toSubsetReplicaMap(subs),
     effective |-> effective, reason |-> reason]

AllocateReplicasKeepingSpecified(subs, replicas, specifiedSubsetReplicas) ==
    LET e == effectiveReplicas(subs, replicas, specifiedSubsetReplicas)
    IN  IF ~e.effective
        THEN Returned(FALSE,
                      incrementalAllocate(
                          ApplySpecified(subs, specifiedSubsetReplicas.m), replicas),
                      FALSE, e.reason)
        ELSE LET n == normalAllocate(subs, replicas, specifiedSubsetReplicas)
             IN  Returned(n.panic, n.subsets, TRUE, EmptyString)

\* AllocateReplicas: what the call returns and leaves in the records
AllocateReplicas(subs, replicas, specifiedSubsetReplicas) ==
    LET e == effectiveReplicas(subs, replicas, specifiedSubsetReplicas)
    IN  IF ~e.effective
        THEN Returned(FALSE, incrementalAllocate(subs, replicas), FALSE, e.reason)
        ELSE LET n == normalAllocate(subs, replicas, specifiedSubsetReplicas)
             IN  Returned(n.panic, n.subsets, TRUE, EmptyString)

\* ------------------------------------------------------------------ inputs
RECURSIVE SubSequences(_)
\* the topologies: every selection of subset names, in name order
SubSequences(s) ==
    IF s = <<>> THEN {<<>>}
    ELSE LET rest == SubSequences(Tail(s))
         IN  rest \cup {<<Head(s)>> \o t : t \in rest}

Topologies == SubSequences(ThreeNames)

NamesOf(topologySubsets) ==
    {topologySubsets[i] : i \in 1..Len(topologySubsets)}

\* the maps name -> value over some of the names
PartialMaps(names, values) ==
    UNION {[d -> values] : d \in SUBSET names}

\* the observed subsets: a subset that does not exist yet is not in the map
ObservedSubsets(counts) ==
    [name \in {x \in DOMAIN counts : counts[x] > 0} |-> counts[name]]

\* ------------------------------------------------------------------- state
VARIABLES
    topology,           \* ud.Spec.Topology.Subsets, the names in order
    replicas,           \* *ud.Spec.Replicas
    specifiedReplicas,  \* the map passed to AllocateReplicas, or NIL
    nameToSubset,       \* observed subset name -> its Spec.Replicas
    subsets,            \* the records of the replicasAllocator
    allocated,          \* the returned allocation
    effective,          \* the returned feasibility
    reason,             \* the returned reason
    previous,           \* what the previous call returned, or NONE
    pc                  \* "start", "built", "sorted", "done", "panic"

vars == <<topology, replicas, specifiedReplicas, nameToSubset, subsets,
          allocated, effective, reason, previous, pc>>

\* The inputs of the first reconciliation: a topology of up to three
\* subsets with every specified map (or none), or the topology of four
\* subsets with larger counts and the empty or an all-pinning map.
Inputs ==
    \/ /\ topology \in Topologies
       /\ replicas \in 0..MaxTotal
       /\ specifiedReplicas \in
              {NIL} \cup {PointerTo(m) : m \in PartialMaps(NamesOf(topology), 0..replicas)}
       /\ \E counts \in [NamesOf(topology) -> 0..MaxCurrent] :
              nameToSubset = ObservedSubsets(counts)
    \/ /\ topology = SubsetNames
       /\ replicas \in 0..MaxTotalOfFour
       /\ specifiedReplicas \in
              {PointerTo(<<>>)} \cup
              {PointerTo([name \in NamesOf(SubsetNames) |-> v]) : v \in {0, replicas}}
       /\ \E counts \in [NamesOf(SubsetNames) -> 0..MaxCurrentOfFour] :
              nameToSubset = ObservedSubsets(counts)

Init ==
    /\ Inputs
    /\ subsets = <<>>
    /\ allocated = <<>>
    /\ effective = TRUE
    /\ reason = EmptyString
    /\ previous = NONE
    /\ pc = "start"

\* GetAllocatedReplicas, line 61: subsetInfos := getSubsetInfos(...)
BuildSubsetInfos ==
    /\ pc = "start"
    /\ subsets' = getSubsetInfos(nameToSubset, topology)
    /\ pc' = "built"
    /\ UNCHANGED <<topology, replicas, specifiedReplicas, nameToSubset,
                   allocated, effective, reason, previous>>

\* subsetInfos.SortToAllocator
SortToAllocator ==
    /\ pc = "built"
    /\ subsets' = SortInfos(subsets)
    /\ pc' = "sorted"
    /\ UNCHANGED <<topology, replicas, specifiedReplicas, nameToSubset,
                   allocated, effective, reason, previous>>

\* replicasAllocator.AllocateReplicas
Allocate ==
    /\ pc = "sorted"
    /\ LET r == AllocateReplicas(subsets, replicas, specifiedReplicas)
       IN  IF r.panic
           THEN /\ pc' = "panic"
                /\ UNCHANGED <<subsets, allocated, effective, reason>>
           ELSE /\ pc' = "done"
                /\ subsets' = r.subsets
                /\ allocated' = r.allocated
                /\ effective' = r.effective
                /\ reason' = r.reason
    /\ UNCHANGED <<topology, replicas, specifiedReplicas, nameToSubset, previous>>

\* The returned allocation is applied to the subsets and the next
\* reconciliation calls GetAllocatedReplicas on what it then observes.
Reconcile ==
    /\ pc = "done"
    /\ previous = NONE
    /\ previous' = <<[allocated |-> allocated, effective |-> effective,
                    reason |-> reason, nameToSubset |-> nameToSubset]>>
    /\ nameToSubset' = allocated
    /\ subsets' = <<>>
    /\ pc' = "start"
    /\ UNCHANGED <<topology, replicas, specifiedReplicas, allocated, effective, reason>>

Next ==
    \/ BuildSubsetInfos
    \/ SortToAllocator
    \/ Allocate
    \/ Reconcile

Spec == Init /\ [][Next]_vars

\* ================================================================== claims
\* The observed replicas of a subset when the allocator was called.
Current(name) == IF name \in DOMAIN nameToSubset THEN nameToSubset[name] ELSE 0

Names == NamesOf(topology)

\* The records as AllocateReplicas received them.
SortedInput == SortInfos(getSubsetInfos(nameToSubset, topology))

CurrentSum == SumOfMap(nameToSubset)

SpecifiedSum == SumOfMap(specifiedReplicas.m)

Pinned == Names \cap DOMAIN specifiedReplicas.m

Unpinned == Names \ DOMAIN specifiedReplicas.m

HasReturned == pc = "done"

Infeasible == pc = "done" /\ ~effective

\* ---------------------------------------------------------------------- C1
\* C1 as stated: whatever the number of subsets, the returned allocation
\* sums to the total.
C1SumAnyTopology ==
    HasReturned => SumOfMap(allocated) = replicas

\* C1, amended: on a topology of at least one subset, the allocation
\* returned by AllocateReplicas covers every subset and sums exactly to the
\* total, on the feasible and on the infeasible path.
C1SumInvariant ==
    (HasReturned /\ Len(topology) >= 1) =>
        /\ DOMAIN allocated = Names
        /\ SumOfMap(allocated) = replicas

\* An infeasible scale out over four subsets has returned.
C1Witness ==
    /\ Infeasible
    /\ Len(topology) = 4
    /\ replicas > CurrentSum
    /\ CurrentSum > 0

\* ---------------------------------------------------------------------- C2
\* C2: when AllocateReplicas reports feasible, every subset named in the
\* specified map receives exactly its specified value.
C2PinnedFidelity ==
    (HasReturned /\ effective) =>
        \A name \in Pinned : allocated[name] = specifiedReplicas.m[name]

\* A feasible call has pinned the subset that sorts last to a value other
\* than its current count, next to unpinned subsets sharing a remainder.
C2Witness ==
    /\ HasReturned /\ effective /\ previous = NONE
    /\ Len(topology) = 3
    /\ \E name \in Pinned :
          /\ SortedInput[Len(topology)].SubsetName = name
          /\ Current(name) # specifiedReplicas.m[name]
          /\ allocated[name] > 0
    /\ Cardinality(Unpinned) = 2
    /\ (replicas - SpecifiedSum) % 2 = 1

\* ---------------------------------------------------------------------- C3
\* C3: for a specified map S, AllocateReplicas returns feasible = false
\* exactly when sum(S) > T, or sum(S) < T and every subset is named in S;
\* the reason is empty exactly when feasible is true.
C3Feasibility ==
    (HasReturned /\ ~specifiedReplicas.isNil) =>
        /\ ~effective <=>
              \/ SpecifiedSum > replicas
              \/ SpecifiedSum < replicas /\ Cardinality(Pinned) = Len(topology)
        /\ (reason = EmptyString) <=> effective

\* A call with every subset pinned and a sum short of the total has
\* returned infeasible.
C3Witness ==
    /\ Infeasible
    /\ Len(topology) >= 2
    /\ Cardinality(Pinned) = Len(topology)
    /\ SpecifiedSum < replicas
    /\ SpecifiedSum > 0

\* ---------------------------------------------------------------------- C4
\* C4: with a nil specified map on a topology of one or more subsets the
\* call completes without a fault, is feasible with an empty reason, and
\* returns what the call with the empty map returns.
C4NilAsEmpty ==
    (pc \in {"done", "panic"} /\ specifiedReplicas.isNil /\ Len(topology) >= 1) =>
        /\ pc = "done"
        /\ effective
        /\ reason = EmptyString
        /\ allocated = AllocateReplicas(SortedInput, replicas, PointerTo(<<>>)).allocated

\* ---------------------------------------------------------------------- C5
\* C5: when the total equals the sum of the current counts,
\* incrementalAllocate returns every subset's current count.
C5NoChange ==
    (Infeasible /\ replicas = CurrentSum) =>
        \A name \in Names : allocated[name] = Current(name)

\* The incremental path has run on three or more subsets with unequal
\* counts whose sum is the total.
C5Witness ==
    /\ Infeasible /\ previous = NONE
    /\ replicas = CurrentSum
    /\ Len(topology) >= 3
    /\ \E a, b \in Names : Current(a) > Current(b) /\ Current(b) > 0

\* ---------------------------------------------------------------------- C6
\* the unpinned subsets that come after name in the order by
\* (current count ascending, name ascending)
UnpinnedAfter(name) ==
    {x \in Unpinned :
        \/ Current(x) > Current(name)
        \/ Current(x) = Current(name) /\ NameIndex(x) > NameIndex(name)}

\* C6: on the feasible path with an unpinned subset, with pool = T - sum(S),
\* free the number of unpinned subsets, base = pool div free and
\* extra = pool mod free, the extra unpinned subsets that come last by
\* (current count, name) receive base + 1 and the other unpinned subsets base.
C6FairRemainder ==
    (HasReturned /\ effective /\ Unpinned # {}) =>
        LET pool == replicas - SpecifiedSum
            free == Cardinality(Unpinned)
            base == pool \div free
            extra == pool % free
        IN  \A name \in Unpinned :
                allocated[name] =
                    IF Cardinality(UnpinnedAfter(name)) < extra THEN base + 1 ELSE base

\* A feasible call with a pinned subset has given base + 1 to an unpinned
\* subset that precedes, by name, an unpinned subset that received base.
C6Witness ==
    /\ HasReturned /\ effective /\ previous = NONE
    /\ Pinned # {}
    /\ \E a, b \in Unpinned :
          /\ NameIndex(a) < NameIndex(b)
          /\ allocated[a] = allocated[b] + 1

\* ---------------------------------------------------------------------- C7
\* the maps that pin every subset, or every subset but one, all to 0 or all
\* to the total
UniformMaps ==
    {PointerTo([name \in d |-> v]) :
        d \in {Names} \cup {Names \ {x} : x \in Names}, v \in {0, replicas}}

\* C7: on the infeasible path the allocation is what incrementalAllocate
\* computes from the total and the current counts alone, and every other
\* infeasible specified map yields the same allocation.
C7IgnoresSpecified ==
    Infeasible =>
        LET sorted == SortedInput
        IN  /\ allocated = toSubsetReplicaMap(incrementalAllocate(sorted, replicas))
            /\ \A other \in UniformMaps :
                  ~effectiveReplicas(sorted, replicas, other).effective =>
                      AllocateReplicas(sorted, replicas, other).allocated = allocated

\* An infeasible call has returned an allocation that differs from the
\* specified value on a pinned subset, after a change of the total.
C7Witness ==
    /\ Infeasible /\ previous = NONE
    /\ replicas # CurrentSum
    /\ \E name \in Pinned :
          /\ allocated[name] # specifiedReplicas.m[name]
          /\ allocated[name] # Current(name)

\* ---------------------------------------------------------------------- C8
\* the position (from 0) of a subset in the sorted records
IndexOf(sorted, name) ==
    (CHOOSE i \in 1..Len(sorted) : sorted[i].SubsetName = name) - 1

RECURSIVE CurrentOfRange(_, _, _)
\* the current counts of the sorted records lo..hi, summed
CurrentOfRange(sorted, lo, hi) ==
    IF lo > hi THEN 0
    ELSE Get(sorted, lo).Replicas + CurrentOfRange(sorted, lo + 1, hi)

\* scale out: the total left for the records 0..i
PoolBelow(sorted, i) == replicas - CurrentOfRange(sorted, i + 1, Len(sorted) - 1)

\* scale in: the total left for the records i..N-1
PoolAbove(sorted, i) == replicas - CurrentOfRange(sorted, 0, i - 1)

\* scale out: the last record that an even spread of the total left, rounded
\* up, would not give less than it runs
ScaleOutBoundary(sorted) ==
    LET ok == {i \in 0..(Len(sorted) - 1) :
                  (PoolBelow(sorted, i) + i) \div (i + 1) >= Get(sorted, i).Replicas}
    IN  CHOOSE i \in ok : \A k \in ok : k <= i

\* scale in: the first record that an even spread of the total left, rounded
\* down, would not give more than it runs
ScaleInBoundary(sorted) ==
    LET ok == {i \in 0..(Len(sorted) - 1) :
                  PoolAbove(sorted, i) \div (Len(sorted) - i) <= Get(sorted, i).Replicas}
    IN  CHOOSE i \in ok : \A k \in ok : k >= i

\* Relative to a share of pool / count, a subset below the share is not
\* reduced and a subset above the share is not raised.
RespectsShare(name, pool, count) ==
    /\ Current(name) * count < pool => allocated[name] >= Current(name)
    /\ Current(name) * count > pool => allocated[name] <= Current(name)

\* C8 as stated, with the fair share T / N over all N subsets (rounded
\* down, the weaker reading): no subset below it is reduced and no subset
\* above it is raised by the incremental path.
C8GlobalFairShare ==
    (Infeasible /\ Len(topology) >= 1) =>
        \A name \in Names :
            /\ Current(name) < replicas \div Len(topology) =>
                   allocated[name] >= Current(name)
            /\ Current(name) > replicas \div Len(topology) =>
                   allocated[name] <= Current(name)

\* C8, amended: the incremental path leaves every excluded subset at its
\* current count, and relative to the fair share recomputed over the
\* considered range (the total left after the excluded subsets, over the
\* number of subsets considered) no subset below the share is reduced and
\* no subset above it is raised.
C8RangeFairShare ==
    (Infeasible /\ Len(topology) >= 1 /\ replicas # CurrentSum) =>
        LET sorted == SortedInput
            out == ScaleOutBoundary(sorted)
            in == ScaleInBoundary(sorted)
        IN  IF replicas > CurrentSum
            THEN LET pool == PoolBelow(sorted, out)
                 IN  \A name \in Names :
                         IF IndexOf(sorted, name) > out
                         THEN allocated[name] = Current(name)
                         ELSE RespectsShare(name, pool, out + 1)
            ELSE LET pool == PoolAbove(sorted, in)
                 IN  \A name \in Names :
                         IF IndexOf(sorted, name) < in
                         THEN allocated[name] = Current(name)
                         ELSE RespectsShare(name, pool, Len(sorted) - in)

\* A scale in over four subsets has excluded the smallest subset and raised
\* a subset that ran more than T / N.
C8Witness ==
    /\ Infeasible /\ previous = NONE
    /\ Len(topology) = 4
    /\ replicas < CurrentSum
    /\ ScaleInBoundary(SortedInput) = 1
    /\ \E name \in Names :
          /\ Current(name) * 4 > replicas
          /\ allocated[name] > Current(name)

\* ---------------------------------------------------------------------- C9
\* C9 as stated: on scale out no subset's target is lower than its current
\* count, on scale in no subset's target is higher.
C9Direction ==
    Infeasible =>
        /\ replicas > CurrentSum =>
              \A name \in Names : allocated[name] >= Current(name)
        /\ replicas < CurrentSum =>
              \A name \in Names : allocated[name] <= Current(name)

\* C9, amended: the incremental path moves a subset against the direction
\* of the scale event by at most one replica: on scale out no target is
\* lower than the current count minus one, on scale in none is higher than
\* the current count plus one.
C9DirectionWithinOne ==
    Infeasible =>
        /\ replicas > CurrentSum =>
              \A name \in Names : allocated[name] >= Current(name) - 1
        /\ replicas < CurrentSum =>
              \A name \in Names : allocated[name] <= Current(name) + 1

\* A scale in has raised one subset by one replica and lowered another.
C9Witness ==
    /\ Infeasible /\ previous = NONE
    /\ replicas < CurrentSum
    /\ \E a, b \in Names :
          /\ allocated[a] = Current(a) + 1
          /\ allocated[b] < Current(b)

\* --------------------------------------------------------------------- C10
\* C10: called again with the returned allocation as the current counts and
\* the same total and specified map, the allocator returns the same
\* allocation and the same feasibility.
C10FixedPoint ==
    (HasReturned /\ previous # NONE) =>
        /\ allocated = previous[1].allocated
        /\ effective = previous[1].effective

\* The second call has returned, after a feasible first call that changed
\* the counts of three subsets and spread a remainder over unpinned ones.
C10Witness ==
    /\ HasReturned /\ previous # NONE
    /\ effective
    /\ Len(topology) = 3
    /\ previous[1].allocated # previous[1].nameToSubset
    /\ \E a, b \in Unpinned : allocated[a] = allocated[b] + 1

====
